---- MODULE Spec2Model ----
(***************************************************************************)
(* Model of the wallet-sweep monitor of src/bot.py: the polling loop       *)
(* (main, check_and_transfer), the sweep (transfer_funds), the tracked     *)
(* balances (last_balances) and the external ledger the client talks to.   *)
(* Every adapter call (get_balance, send_transaction, confirm_transaction) *)
(* is a suspension point, so the ledger may change between two of them.    *)
(***************************************************************************)
EXTENDS Integers, Sequences, FiniteSets

\* ---- program constants -------------------------------------------------
minimum_lamports == 1000000
FeeReserve == 5000

\* ---- bounds of the model -----------------------------------------------
MaxCycles == 3
MaxLedgerEvents == 3
MaxLiveLedgerEvents == 2

\* ---- the wallet registry and the environment's moves --------------------
Wallets == {"A", "B"}
WalletOrder == <<"A", "B">>
DepositAmounts == {800000, 1500000}
Residues == {0, 3000, 5000}

\* line 59: the destination all transfers go to
receiver_pubkey == "DEST"

\* lines 31-37: an address is paired with whatever key its variable holds;
\* the key is the address's own, or the key of another monitored address
KeyConfigs ==
  {[w \in Wallets |-> w], [w \in Wallets |-> "B"]}

\* what the three startup checks can find
StartupConfigs ==
  [wallets : BOOLEAN, connect : BOOLEAN, receiver : BOOLEAN]

Outcomes ==
  {"NoDepositDetected", "InsufficientForFee", "TransferSucceeded",
   "TransferFailed", "FetchError"}

VARIABLES
  ledger,               \* external: address -> balance held on the ledger
  last_balances,        \* address -> last tracked balance
  pc,                   \* position of the single thread of control
  idx,                  \* position of the for loop in WalletOrder
  current_balance,      \* local of check_and_transfer
  tf_balance,           \* local current_balance of transfer_funds
  lamports_to_transfer, \* local of transfer_funds
  success,              \* value returned by transfer_funds
  cycles,               \* number of cycles started
  events,               \* number of ledger moves made by the environment
  poll,                 \* history: the poll in progress
  done,                 \* history: the poll that completed last
  cycleResult,          \* history: address -> outcome in the current cycle
  recorded,             \* history: address -> a poll has recorded its balance
  observed,             \* history: address -> balance its last good poll fetched
  pendingDeposit,       \* history: address -> deposit not yet seen by a poll
  failedOpen,           \* history: address -> a failed transfer, no rise since
  attempts,             \* history: address -> calls of transfer_funds
  inflight,             \* history: addresses with a transfer sent, not returned
  keyOwner,             \* configuration: address -> account its key controls
  startup,              \* configuration: what the startup checks will find
  exit_status           \* status the process exited with, 0 while it runs

vars ==
  <<ledger, last_balances, pc, idx, current_balance, tf_balance,
    lamports_to_transfer, success, cycles, events, poll, done, cycleResult,
    recorded, observed, pendingDeposit, failedOpen, attempts, inflight,
    keyOwner, startup, exit_status>>

cfgVars ==
  <<keyOwner, startup, exit_status>>

progVars ==
  <<last_balances, pc, idx, current_balance, tf_balance,
    lamports_to_transfer, success, cycles>>

histVars ==
  <<poll, done, cycleResult, recorded, observed, pendingDeposit, failedOpen,
    attempts>>

wallet == WalletOrder[idx]

NoPoll ==
  [valid |-> FALSE, wallet |-> "A", fetchOk |-> FALSE, cur |-> 0,
   lastBefore |-> 0, hadRecord |-> FALSE, prevObserved |-> 0, pending |-> FALSE,
   attempted |-> FALSE, tfRead |-> FALSE, tfBal |-> 0, changed |-> FALSE,
   submitted |-> FALSE, amount |-> 0, source |-> "none", dest |-> "none",
   confirm |-> "none", outcome |-> "FetchError"]

\* ---- pure parts of the code ---------------------------------------------
\* variants of the deposit test that a slip in line 107 would produce
DepositDetectedOnChange(cur, last) ==
  cur # last /\ cur >= minimum_lamports

DepositDetectedNoThreshold(cur, last) ==
  cur > last

DepositDetectedIgnoresLast(cur, last) ==
  cur >= minimum_lamports

DepositDetectedOrEqual(cur, last) ==
  cur >= last /\ cur >= minimum_lamports

\* line 107: the deposit test of check_and_transfer
DepositDetected(cur, last) ==
  cur > last /\ cur >= minimum_lamports

\* variant of line 75 that sweeps the whole balance
LamportsToTransferNoReserve(bal) ==
  bal

\* line 75: the amount transfer_funds hands to the transaction
LamportsToTransfer(bal) ==
  bal - FeeReserve

\* variant of line 76 that lets an empty transfer through
InsufficientForFeeBelowZero(lamports) ==
  lamports < 0

\* line 76: nothing is left to transfer once the fee reserve is kept
InsufficientForFee(lamports) ==
  lamports <= 0

\* variant of lines 107-109 that records the balance before the transfer
TrackedAtDetectionEager(last, cur) ==
  cur

\* lines 107-109: the deposit branch leaves the tracked balance alone until
\* transfer_funds has returned
TrackedAtDetection(last, cur) ==
  last

\* variant of lines 110-114 that records what was transferred
RecordedBalanceTransferred(last, cur, ok) ==
  cur - FeeReserve

\* variant of lines 110-114 without the unconditional assignment of line 114
RecordedBalanceOnSuccess(last, cur, ok) ==
  IF ok THEN cur ELSE last

\* lines 110-114: the tracked balance after the deposit branch
RecordedBalance(last, cur, ok) ==
  LET afterIf == IF ok THEN cur ELSE last
  IN  cur

\* the for loop moves on to the next wallet, or the cycle ends (sleep)
NextPc(i) ==
  IF i = Len(WalletOrder) THEN "idle" ELSE "fetch"

\* variant without the handler of line 115: the error ends the process
AfterFetchErrorPropagates(i) ==
  "exited"

\* variant of the handler of line 115 that leaves the for loop
AfterFetchErrorAbort(i) ==
  "idle"

\* lines 115-116: the handler logs and the for loop goes on
AfterFetchError(i) ==
  NextPc(i)

\* variant of the startup that goes on with an unvalidated destination
StartupPassesNoReceiverCheck(cfg) ==
  cfg.wallets /\ cfg.connect

\* lines 44-62: wallets configured, node reachable, destination valid
StartupPasses(cfg) ==
  cfg.wallets /\ cfg.connect /\ cfg.receiver

Init ==
  /\ ledger = [w \in Wallets |-> 0]
  /\ last_balances = [w \in Wallets |-> 0]
  /\ pc = "startup"
  /\ keyOwner \in KeyConfigs
  /\ startup \in StartupConfigs
  /\ exit_status = 0
  /\ inflight = {}
  /\ idx = 1
  /\ current_balance = 0
  /\ tf_balance = 0
  /\ lamports_to_transfer = 0
  /\ success = FALSE
  /\ cycles = 0
  /\ events = 0
  /\ poll = NoPoll
  /\ done = NoPoll
  /\ cycleResult = [w \in Wallets |-> "none"]
  /\ recorded = [w \in Wallets |-> FALSE]
  /\ observed = [w \in Wallets |-> 0]
  /\ pendingDeposit = [w \in Wallets |-> FALSE]
  /\ failedOpen = [w \in Wallets |-> FALSE]
  /\ attempts = [w \in Wallets |-> 0]

\* ---- module level: lines 43-62, then main() or exit(1) --------------------
\* a failed check calls exit(1); a missing destination raises a TypeError
\* that nothing catches, which ends the process with status 1 as well
Startup ==
  /\ pc = "startup"
  /\ IF StartupPasses(startup)
       THEN /\ pc' = "idle"
            /\ UNCHANGED exit_status
       ELSE /\ pc' = "exited"
            /\ exit_status' = 1
  /\ UNCHANGED <<ledger, last_balances, idx, current_balance, tf_balance,
                 lamports_to_transfer, success, cycles, events, inflight,
                 keyOwner, startup>>
  /\ UNCHANGED histVars

\* ---- the environment: the ledger moves on its own -------------------------
Deposit(w, a) ==
  /\ events < MaxLedgerEvents
  /\ events' = events + 1
  /\ ledger' = [ledger EXCEPT ![w] = @ + a]
  /\ pendingDeposit' =
       [pendingDeposit EXCEPT ![w] = (ledger[w] + a >= minimum_lamports)]
  /\ poll' = IF pc = "tf_read" /\ wallet = w
               THEN [poll EXCEPT !.changed = TRUE] ELSE poll
  /\ UNCHANGED progVars
  /\ UNCHANGED <<done, cycleResult, recorded, observed, failedOpen, attempts>>
  /\ UNCHANGED cfgVars
  /\ UNCHANGED inflight

Withdraw(w, r) ==
  /\ events < MaxLedgerEvents
  /\ r < ledger[w]
  /\ events' = events + 1
  /\ ledger' = [ledger EXCEPT ![w] = r]
  /\ pendingDeposit' = [pendingDeposit EXCEPT ![w] = FALSE]
  /\ poll' = IF pc = "tf_read" /\ wallet = w
               THEN [poll EXCEPT !.changed = TRUE] ELSE poll
  /\ UNCHANGED progVars
  /\ UNCHANGED <<done, cycleResult, recorded, observed, failedOpen, attempts>>
  /\ UNCHANGED cfgVars
  /\ UNCHANGED inflight

\* ---- main: while True: check_and_transfer(); time.sleep(7) ---------------
StartCycle ==
  /\ pc = "idle"
  /\ cycles < MaxCycles
  /\ cycles' = cycles + 1
  /\ pc' = "fetch"
  /\ idx' = 1
  /\ cycleResult' = [w \in Wallets |-> "none"]
  /\ UNCHANGED <<ledger, last_balances, current_balance, tf_balance,
                 lamports_to_transfer, success, events, poll, done, recorded, observed,
                 pendingDeposit, failedOpen, attempts>>
  /\ UNCHANGED cfgVars
  /\ UNCHANGED inflight

\* variant of the fetch failure that forgets the tracked balance
FetchFailResets ==
  /\ pc = "fetch"
  /\ LET p == [NoPoll EXCEPT !.valid = TRUE, !.wallet = wallet,
                             !.lastBefore = last_balances[wallet],
                             !.hadRecord = recorded[wallet],
                             !.prevObserved = observed[wallet],
                             !.outcome = "FetchError"]
     IN  /\ poll' = p
         /\ done' = p
  /\ last_balances' = [last_balances EXCEPT ![wallet] = 0]
  /\ cycleResult' = [cycleResult EXCEPT ![wallet] = "FetchError"]
  /\ pc' = AfterFetchError(idx)
  /\ idx' = IF idx = Len(WalletOrder) THEN idx ELSE idx + 1
  /\ UNCHANGED <<ledger, current_balance, tf_balance,
                 lamports_to_transfer, success, cycles, events, recorded, observed,
                 pendingDeposit, failedOpen, attempts>>
  /\ UNCHANGED cfgVars
  /\ UNCHANGED inflight

\* ---- check_and_transfer: the fetch raises, the wallet is skipped ---------
FetchFail ==
  /\ pc = "fetch"
  /\ LET p == [NoPoll EXCEPT !.valid = TRUE, !.wallet = wallet,
                             !.lastBefore = last_balances[wallet],
                             !.hadRecord = recorded[wallet],
                             !.prevObserved = observed[wallet],
                             !.outcome = "FetchError"]
     IN  /\ poll' = p
         /\ done' = p
  /\ cycleResult' = [cycleResult EXCEPT ![wallet] = "FetchError"]
  /\ pc' = AfterFetchError(idx)
  /\ idx' = IF idx = Len(WalletOrder) THEN idx ELSE idx + 1
  /\ UNCHANGED <<ledger, last_balances, current_balance, tf_balance,
                 lamports_to_transfer, success, cycles, events, recorded, observed,
                 pendingDeposit, failedOpen, attempts>>
  /\ UNCHANGED cfgVars
  /\ UNCHANGED inflight

\* ---- check_and_transfer: the fetch returns, the deposit test -------------
FetchOk ==
  /\ pc = "fetch"
  /\ LET cur == ledger[wallet]
         last == last_balances[wallet]
         p == [NoPoll EXCEPT !.valid = TRUE, !.wallet = wallet,
                             !.fetchOk = TRUE, !.cur = cur,
                             !.lastBefore = last,
                             !.hadRecord = recorded[wallet],
                             !.prevObserved = observed[wallet],
                             !.pending = pendingDeposit[wallet],
                             !.outcome = "NoDepositDetected"]
     IN  /\ current_balance' = cur
         /\ pendingDeposit' = [pendingDeposit EXCEPT ![wallet] = FALSE]
         /\ failedOpen' =
              [failedOpen EXCEPT ![wallet] = @ /\ cur <= observed[wallet]]
         /\ IF DepositDetected(cur, last)
              THEN /\ pc' = "tf_read"
                   /\ poll' = [p EXCEPT !.attempted = TRUE]
                   /\ attempts' = [attempts EXCEPT ![wallet] = @ + 1]
                   /\ last_balances' =
                        [last_balances EXCEPT
                           ![wallet] = TrackedAtDetection(@, cur)]
                   /\ UNCHANGED <<idx, done, cycleResult,
                                  recorded, observed>>
              ELSE /\ last_balances' = [last_balances EXCEPT ![wallet] = cur]
                   /\ recorded' = [recorded EXCEPT ![wallet] = TRUE]
                   /\ observed' = [observed EXCEPT ![wallet] = cur]
                   /\ poll' = p
                   /\ done' = p
                   /\ cycleResult' =
                        [cycleResult EXCEPT ![wallet] = "NoDepositDetected"]
                   /\ pc' = NextPc(idx)
                   /\ idx' = IF idx = Len(WalletOrder) THEN idx ELSE idx + 1
                   /\ UNCHANGED attempts
  /\ UNCHANGED <<ledger, tf_balance, lamports_to_transfer, success, cycles,
                 events>>
  /\ UNCHANGED cfgVars
  /\ UNCHANGED inflight

\* ---- transfer_funds: key, address and the second balance read ------------
TfRead ==
  /\ pc = "tf_read"
  /\ tf_balance' = ledger[wallet]
  /\ lamports_to_transfer' = LamportsToTransfer(ledger[wallet])
  /\ IF InsufficientForFee(LamportsToTransfer(ledger[wallet]))
       THEN /\ success' = FALSE
            /\ pc' = "record"
            /\ poll' = [poll EXCEPT !.tfRead = TRUE, !.tfBal = ledger[wallet],
                                    !.outcome = "InsufficientForFee"]
       ELSE /\ pc' = "send"
            /\ poll' = [poll EXCEPT !.tfRead = TRUE, !.tfBal = ledger[wallet]]
            /\ UNCHANGED success
  /\ UNCHANGED <<ledger, last_balances, idx, current_balance, cycles, events,
                 done, cycleResult, recorded, observed, pendingDeposit, failedOpen,
                 attempts>>
  /\ UNCHANGED cfgVars
  /\ UNCHANGED inflight

TfReadFail ==
  /\ pc = "tf_read"
  /\ success' = FALSE
  /\ pc' = "record"
  /\ poll' = [poll EXCEPT !.outcome = "TransferFailed"]
  /\ UNCHANGED <<ledger, last_balances, idx, current_balance, tf_balance,
                 lamports_to_transfer, cycles, events, done, cycleResult,
                 recorded, observed, pendingDeposit, failedOpen, attempts>>
  /\ UNCHANGED cfgVars
  /\ UNCHANGED inflight

\* ---- transfer_funds: send_transaction -------------------------------------
SendOk ==
  /\ pc = "send"
  /\ pc' = "confirm"
  /\ poll' = [poll EXCEPT !.submitted = TRUE, !.amount = lamports_to_transfer,
                          !.source = keyOwner[wallet],
                          !.dest = receiver_pubkey]
  /\ UNCHANGED <<ledger, last_balances, idx, current_balance, tf_balance,
                 lamports_to_transfer, success, cycles, events, done,
                 cycleResult, recorded, observed, pendingDeposit, failedOpen, attempts>>
  /\ UNCHANGED cfgVars
  /\ inflight' = inflight \cup {wallet}

SendFail ==
  /\ pc = "send"
  /\ success' = FALSE
  /\ pc' = "record"
  /\ poll' = [poll EXCEPT !.submitted = TRUE, !.amount = lamports_to_transfer,
                          !.source = keyOwner[wallet],
                          !.dest = receiver_pubkey,
                          !.outcome = "TransferFailed"]
  /\ UNCHANGED <<ledger, last_balances, idx, current_balance, tf_balance,
                 lamports_to_transfer, cycles, events, done, cycleResult,
                 recorded, observed, pendingDeposit, failedOpen, attempts>>
  /\ UNCHANGED cfgVars
  /\ UNCHANGED inflight

\* ---- transfer_funds: confirm_transaction ----------------------------------
\* r is what the call does: it returns a confirmed or a failed status, or it
\* raises; landed tells whether the ledger executed the transfer
Confirm(r, landed) ==
  /\ pc = "confirm"
  /\ r = "confirmed" => landed
  /\ r = "failed" => ~landed
  /\ landed => ledger[poll.source] >= lamports_to_transfer + FeeReserve
  /\ ledger' = IF landed
                 THEN [ledger EXCEPT
                         ![poll.source] = @ - (lamports_to_transfer + FeeReserve)]
                 ELSE ledger
  /\ pendingDeposit' = IF landed
                         THEN [pendingDeposit EXCEPT ![poll.source] = FALSE]
                         ELSE pendingDeposit
  /\ success' = (r # "error")
  /\ poll' = [poll EXCEPT !.confirm = r,
                          !.outcome = IF r # "error" THEN "TransferSucceeded"
                                                     ELSE "TransferFailed"]
  /\ pc' = "record"
  /\ UNCHANGED <<last_balances, idx, current_balance, tf_balance,
                 lamports_to_transfer, cycles, events, done, cycleResult,
                 recorded, observed, failedOpen, attempts>>
  /\ UNCHANGED cfgVars
  /\ inflight' = inflight \ {wallet}

\* variant of the record step that overwrites every slot of the map
RecordEverySlot ==
  /\ pc = "record"
  /\ last_balances' =
       [w \in Wallets |->
          RecordedBalance(last_balances[w], current_balance, success)]
  /\ recorded' = [recorded EXCEPT ![wallet] = TRUE]
  /\ observed' = [observed EXCEPT ![wallet] = current_balance]
  /\ done' = poll
  /\ cycleResult' = [cycleResult EXCEPT ![wallet] = poll.outcome]
  /\ failedOpen' =
       [failedOpen EXCEPT ![wallet] = (poll.outcome = "TransferFailed")]
  /\ pc' = NextPc(idx)
  /\ idx' = IF idx = Len(WalletOrder) THEN idx ELSE idx + 1
  /\ UNCHANGED <<ledger, current_balance, tf_balance, lamports_to_transfer,
                 success, cycles, events, poll, pendingDeposit, attempts>>
  /\ UNCHANGED cfgVars
  /\ UNCHANGED inflight

\* ---- check_and_transfer: back from transfer_funds, lines 110-114 ----------
Record ==
  /\ pc = "record"
  /\ last_balances' =
       [last_balances EXCEPT
          ![wallet] = RecordedBalance(@, current_balance, success)]
  /\ recorded' = [recorded EXCEPT ![wallet] = TRUE]
  /\ observed' = [observed EXCEPT ![wallet] = current_balance]
  /\ done' = poll
  /\ cycleResult' = [cycleResult EXCEPT ![wallet] = poll.outcome]
  /\ failedOpen' =
       [failedOpen EXCEPT ![wallet] = (poll.outcome = "TransferFailed")]
  /\ pc' = NextPc(idx)
  /\ idx' = IF idx = Len(WalletOrder) THEN idx ELSE idx + 1
  /\ UNCHANGED <<ledger, current_balance, tf_balance, lamports_to_transfer,
                 success, cycles, events, poll, pendingDeposit, attempts>>
  /\ UNCHANGED cfgVars
  /\ UNCHANGED inflight

Next ==
  \/ Startup
  \/ \E w \in Wallets, a \in DepositAmounts : Deposit(w, a)
  \/ \E w \in Wallets, r \in Residues : Withdraw(w, r)
  \/ StartCycle
  \/ FetchFail
  \/ FetchOk
  \/ TfRead
  \/ TfReadFail
  \/ SendOk
  \/ SendFail
  \/ \E r \in {"confirmed", "failed", "error"}, landed \in BOOLEAN :
       Confirm(r, landed)
  \/ Record

Spec == Init /\ [][Next]_vars

\* ---- the loop without a bound on the number of cycles ---------------------
\* lines 122-124: the sleep ends and the next cycle starts; the cycle counter
\* stops counting at MaxCycles
StartCycleForever ==
  /\ pc = "idle"
  /\ cycles' = IF cycles < MaxCycles THEN cycles + 1 ELSE cycles
  /\ pc' = "fetch"
  /\ idx' = 1
  /\ cycleResult' = [w \in Wallets |-> "none"]
  /\ UNCHANGED <<ledger, last_balances, current_balance, tf_balance,
                 lamports_to_transfer, success, events, poll, done, recorded,
                 observed, pendingDeposit, failedOpen, attempts, inflight>>
  /\ UNCHANGED cfgVars

\* the steps of the program: every adapter call returns or raises, and the
\* sleep ends
ProgramStep ==
  \/ Startup
  \/ StartCycleForever
  \/ FetchFail
  \/ FetchOk
  \/ TfRead
  \/ TfReadFail
  \/ SendOk
  \/ SendFail
  \/ \E r \in {"confirmed", "failed", "error"}, landed \in BOOLEAN :
       Confirm(r, landed)
  \/ Record

\* the ledger moves, a bounded number of times
LedgerStep ==
  /\ events < MaxLiveLedgerEvents
  /\ \/ \E w \in Wallets, a \in DepositAmounts : Deposit(w, a)
     \/ \E w \in Wallets, r \in Residues : Withdraw(w, r)

NextForever ==
  \/ ProgramStep
  \/ LedgerStep

LiveSpec == Init /\ [][NextForever]_vars /\ WF_vars(ProgramStep)

\* ---- properties -----------------------------------------------------------

\* C1 (as stated): whenever a transfer is submitted, the amount handed to the
\* adapter is the balance observed by the poll in check_and_transfer minus
\* the fee reserve of 5000, also when the ledger changed after that read.
C1_AmountFromPolledBalance ==
  (done.valid /\ done.submitted) => done.amount = done.cur - FeeReserve

\* C1 (amended): whenever a transfer is submitted, the amount handed to the
\* adapter is the balance read inside transfer_funds minus 5000; it is the
\* polled balance minus 5000 when the ledger did not change between the reads.
C1_AmountFromTransferRead ==
  (done.valid /\ done.submitted) =>
     /\ done.amount = done.tfBal - FeeReserve
     /\ ~done.changed => done.amount = done.cur - FeeReserve

C1_Witness ==
  /\ done.valid /\ done.submitted /\ done.changed
  /\ done.tfBal # done.cur
  /\ done.amount = done.tfBal - FeeReserve

\* C2: a poll whose fetched balance is at most the tracked balance attempts
\* no transfer and sets the tracked balance to the fetched balance.
C2_NoRiseNoTransfer ==
  (done.valid /\ done.fetchOk /\ done.cur <= done.lastBefore) =>
     /\ ~done.attempted
     /\ ~done.submitted
     /\ last_balances[done.wallet] = done.cur

C2_Witness ==
  /\ done.valid /\ done.fetchOk
  /\ done.cur < done.lastBefore
  /\ done.cur >= minimum_lamports
  /\ last_balances[done.wallet] = done.cur

\* C3: a poll whose fetched balance rose but is below the minimum threshold
\* attempts no transfer and still sets the tracked balance to it.
C3_BelowThresholdNoTransfer ==
  (done.valid /\ done.fetchOk /\ done.cur > done.lastBefore
     /\ done.cur < minimum_lamports) =>
     /\ ~done.attempted
     /\ ~done.submitted
     /\ last_balances[done.wallet] = done.cur

C3_Witness ==
  /\ done.valid /\ done.fetchOk
  /\ done.cur > done.lastBefore
  /\ done.cur < minimum_lamports
  /\ done.outcome = "NoDepositDetected"

\* C5: at the end of every poll whose fetch succeeded the tracked balance is
\* the balance that poll fetched, whatever the outcome.
C5_RecordedAfterEveryPoll ==
  (done.valid /\ done.fetchOk) => last_balances[done.wallet] = done.cur

C5_Witness ==
  /\ done.valid /\ done.fetchOk /\ done.submitted
  /\ done.outcome = "TransferFailed"
  /\ done.cur # done.lastBefore
  /\ last_balances[done.wallet] = done.cur

\* C6: a poll whose balance fetch fails attempts no transfer and leaves the
\* tracked balances (and the ledger) exactly as they were.
C6_FetchFailureSkips ==
  [][(pc = "fetch" /\ cycleResult'[wallet] = "FetchError") =>
       /\ last_balances' = last_balances
       /\ attempts' = attempts
       /\ ledger' = ledger]_vars

C6_Witness ==
  /\ done.valid /\ ~done.fetchOk
  /\ done.lastBefore > 0
  /\ ledger[done.wallet] # done.lastBefore
  /\ last_balances[done.wallet] = done.lastBefore

\* C7: when a cycle ends every wallet of the registry has been polled in it,
\* whatever failed for the other wallets, and what was decided for a wallet
\* follows from its own fetched and tracked balance.
C7_EveryWalletEvaluated ==
  /\ (pc = "idle" /\ cycles > 0) =>
        \A w \in Wallets : cycleResult[w] \in Outcomes
  /\ (done.valid /\ done.fetchOk) =>
        (done.attempted <=>
           (done.cur > done.lastBefore /\ done.cur >= minimum_lamports))

C7_Witness ==
  /\ pc = "idle"
  /\ cycleResult["A"] = "FetchError"
  /\ cycleResult["B"] = "TransferSucceeded"

\* C8: a poll that fetches the balance the preceding successful poll of the
\* wallet fetched ends with NoDepositDetected and submits nothing.
C8_UnchangedBalanceIdempotent ==
  (done.valid /\ done.fetchOk /\ done.hadRecord
     /\ done.cur = done.prevObserved) =>
     /\ done.outcome = "NoDepositDetected"
     /\ ~done.attempted
     /\ ~done.submitted

C8_Witness ==
  /\ done.valid /\ done.fetchOk /\ done.hadRecord
  /\ done.cur = done.prevObserved
  /\ done.cur >= minimum_lamports
  /\ done.outcome = "NoDepositDetected"

\* C9 (as stated): a deposit that brings a wallet's ledger balance to the
\* minimum threshold or above is met by a transfer attempt at the wallet's
\* next successful poll.
C9_DepositAlwaysSwept ==
  (done.valid /\ done.fetchOk /\ done.pending) => done.attempted

\* C10: after a failed transfer for a wallet no transfer is attempted for it
\* as long as no poll fetches more than the preceding poll fetched.
C10_FailedTransferNotRetried ==
  [][\A w \in Wallets :
       (failedOpen[w] /\ failedOpen'[w]) => attempts'[w] = attempts[w]]_vars

C10_Witness ==
  /\ done.valid /\ done.fetchOk
  /\ failedOpen[done.wallet]
  /\ done.cur >= minimum_lamports
  /\ done.outcome = "NoDepositDetected"
  /\ pc # "record"

\* C11 (as stated): every submitted transfer has the polled wallet as its
\* source account, whatever key is configured with the address, and the
\* destination validated at startup as its destination.
C11_SourceIsPolledWallet ==
  (done.valid /\ done.submitted) =>
     /\ done.source = done.wallet
     /\ done.dest = receiver_pubkey

\* C12 (as stated): the outcome is TransferSucceeded only if the submission
\* succeeded and the confirmation returned Confirmed, and TransferFailed
\* whenever the confirmation gave an error or a Failed result.
C12_SucceededOnlyIfConfirmed ==
  done.valid =>
     /\ done.outcome = "TransferSucceeded" =>
          (done.submitted /\ done.confirm = "confirmed")
     /\ (done.submitted /\ done.confirm # "confirmed") =>
          done.outcome = "TransferFailed"

\* C14: when a startup check fails (no valid wallet, no connection, invalid
\* destination) the process ends with a non-zero status and no balance is
\* polled and no transfer made.
C14_NoMonitoringAfterFailedStartup ==
  (~startup.wallets \/ ~startup.connect \/ ~startup.receiver) =>
     /\ pc \in {"startup", "exited"}
     /\ pc = "exited" => exit_status # 0
     /\ cycles = 0
     /\ ~poll.valid /\ ~done.valid
     /\ \A w \in Wallets : attempts[w] = 0 /\ last_balances[w] = 0

C14_Witness ==
  /\ pc = "exited"
  /\ exit_status = 1
  /\ startup.wallets /\ startup.connect /\ ~startup.receiver
  /\ \E w \in Wallets : ledger[w] >= minimum_lamports

\* C15: a wallet's tracked balance is written only by its record step, after
\* its transfer (if any) has returned, or by a fetch that starts no transfer;
\* at most one transfer is in flight and none when the next fetch starts.
C15_FetchDecideTransferRecord ==
  /\ [](/\ Cardinality(inflight) <= 1
        /\ pc \in {"idle", "fetch"} => inflight = {}
        /\ pc = "send" => (poll.fetchOk /\ poll.attempted /\ poll.tfRead)
        /\ pc = "confirm" => poll.submitted)
  /\ [][\A w \in Wallets :
          last_balances'[w] # last_balances[w] =>
             /\ w \notin inflight
             /\ pc \in {"fetch", "record"}
             /\ pc = "fetch" => pc' # "tf_read"]_vars

C15_Witness ==
  /\ pc = "record"
  /\ poll.submitted /\ poll.confirm # "none"
  /\ inflight = {}
  /\ last_balances[wallet] # current_balance

\* C16: a poll of a wallet changes no tracked balance but that wallet's.
C16_OnlyOwnSlotChanges ==
  [][\A w \in Wallets :
       last_balances'[w] # last_balances[w] =>
          (pc \in {"fetch", "record"} /\ w = wallet)]_vars

C16_Witness ==
  /\ done.valid /\ done.fetchOk
  /\ done.wallet = "A"
  /\ done.cur # done.lastBefore
  /\ last_balances["B"] > 0
  /\ last_balances["B"] # last_balances["A"]

\* C17: the tracked-balance map has exactly one entry per wallet of the
\* registry, every entry is 0 until a poll of its wallet records a balance,
\* and from then on it is a balance that a poll of that wallet fetched.
C17_OneEntryPerWallet ==
  /\ DOMAIN last_balances = Wallets
  /\ \A w \in Wallets :
        /\ last_balances[w] >= 0
        /\ IF recorded[w] THEN last_balances[w] = observed[w]
                          ELSE last_balances[w] = 0

C17_Witness ==
  /\ recorded["A"] /\ last_balances["A"] > 0
  /\ ~recorded["B"] /\ last_balances["B"] = 0
  /\ ledger["B"] > 0
  /\ cycles > 1

\* C18: every transfer handed to send_transaction has a strictly positive
\* amount, and the balance read inside transfer_funds was that amount plus
\* the whole fee reserve of 5000.
C18_PositiveAmountReserveKept ==
  (poll.valid /\ poll.submitted) =>
     /\ poll.amount > 0
     /\ poll.tfRead
     /\ poll.tfBal = poll.amount + FeeReserve

C18_Witness ==
  /\ pc = "confirm"
  /\ poll.submitted
  /\ poll.amount > 0
  /\ poll.tfBal = poll.amount + FeeReserve
  /\ poll.tfBal # poll.cur

\* C13: once the monitor loop has started the process never ends, every
\* cycle is followed by the idle period and by another cycle, and every
\* wallet of the registry is polled again and again, whatever fails.
C13_MonitorLoopNeverStops ==
  /\ [][pc \notin {"startup", "exited"} => pc' # "exited"]_vars
  /\ (pc = "idle") ~> (pc = "fetch" /\ idx = 1)
  /\ (pc = "fetch" /\ idx = 1) ~> (pc = "idle")
  /\ \A w \in Wallets :
        (pc = "idle") ~> (pc = "fetch" /\ wallet = w)
  /\ \A w \in Wallets :
        (pc = "fetch" /\ wallet = w) ~> (cycleResult[w] \in Outcomes)

C13_Witness ==
  /\ pc = "fetch" /\ wallet = "B"
  /\ cycles = MaxCycles
  /\ cycleResult["A"] = "FetchError"
  /\ done.valid /\ done.wallet = "A"
  /\ \E w \in Wallets : failedOpen[w]
====
